---- MODULE Spec2Model ----
(***************************************************************************)
(* Model of check_domains.py: the domain availability checker.            *)
(*                                                                         *)
(* A Python str is the sequence of its Unicode code points, so that        *)
(* str.strip() and the f-strings are computed on any text; a line of the  *)
(* base-string file is a str ending in a newline.  Names of exceptions,   *)
(* of functions and of positions in the code are TLA+ strings.  A run is  *)
(* either main() or a direct call of                                      *)
(* find_available_domains(candidates, callback) as the unit tests make.   *)
(***************************************************************************)
EXTENDS Naturals, Sequences, FiniteSets, TLC

\* ------------------------------------------------------------- bounds
MaxLines == 2       \* lines of the base-string file
MaxTlds == 2        \* entries of top_level_domains
MaxCands == 3       \* candidates handed directly to find_available_domains

\* ------------------------------------------------------------- str literals
s_a == <<97>>                                 \* "a"
s_b == <<98>>                                 \* "b"
s_test == <<116, 101, 115, 116>>                 \* "test"
s_example == <<101, 120, 97, 109, 112, 108, 101>>     \* "example"
s_com == <<99, 111, 109>>                     \* "com"
s_net == <<110, 101, 116>>                    \* "net"
s_test_com == <<116, 101, 115, 116, 46, 99, 111, 109>>        \* "test.com"
s_test_net == <<116, 101, 115, 116, 46, 110, 101, 116>>       \* "test.net"
s_example_com == <<101, 120, 97, 109, 112, 108, 101, 46, 99, 111, 109>>    \* "example.com"
s_dot == <<46>>                                \* "."
\* "Checking: "
s_Checking == <<67, 104, 101, 99, 107, 105, 110, 103, 58, 32>>
\* "Available domains:"
s_Available == <<65, 118, 97, 105, 108, 97, 98, 108, 101, 32, 100, 111, 109, 97, 105, 110, 115, 58>>
\* "No available domains found."
s_NoAvailable ==
    <<78, 111, 32, 97, 118, 97, 105, 108, 97, 98, 108, 101, 32, 100, 111, 109, 97, 105, 110, 115>>
        \o <<32, 102, 111, 117, 110, 100, 46>>

\* ------------------------------------------------------------- inputs
RECURSIVE SeqsUpTo(_, _)
SeqsUpTo(S, n) ==
    IF n = 0 THEN {<<>>}
    ELSE LET shorter == SeqsUpTo(S, n - 1)
         IN  shorter \cup {Append(s, x) : s \in {t \in shorter : Len(t) = n - 1}, x \in S}

\* Lines of the input file: "\n" (blank), "a\n", and "\f b \n" (padded with a
\* form feed and spaces).
FileLines == { <<10>>, s_a \o <<10>>, <<12, 32>> \o s_b \o <<32, 10>> }

\* sys.argv[1:]: no argument, -h, or "f --config c" (without --config only the
\* path of the configuration file differs).
ArgvChoices ==
    { <<>>, << <<45, 104>> >>, << <<102>>, <<45, 45, 99, 111, 110, 102, 105, 103>>, <<99>> >> }

Tlds == {s_com, s_net}

\* The input file: missing, or its lines.
InputFiles ==
    {[exists |-> FALSE, lines |-> <<>>]}
        \cup {[exists |-> TRUE, lines |-> l] : l \in SeqsUpTo(FileLines, MaxLines)}

\* The configuration file: missing, not parseable as YAML, empty (parses to
\* None), a YAML sequence (parses to a list), or a mapping with or without the
\* key top_level_domains.
ConfigDocs ==
    {[kind |-> k, has_key |-> FALSE, tlds |-> <<>>] :
        k \in {"absent", "invalid", "empty", "sequence", "mapping"}}
        \cup {[kind |-> "mapping", has_key |-> TRUE, tlds |-> t] : t \in SeqsUpTo(Tlds, MaxTlds)}

NoConfig == [kind |-> "absent", has_key |-> FALSE, tlds |-> <<>>]
NoInput == [exists |-> FALSE, lines |-> <<>>]

\* Candidates of the unit tests of find_available_domains.
TestCandidates == { <<s_test_com, s_test>>, <<s_test_net, s_test>>, <<s_example_com, s_example>> }

\* Outcomes of whois.whois(domain): it returns a record (of any content) or raises.
WhoisReturns == {"record", "empty_record"}
WhoisFaults == {"PywhoisError", "socket.timeout"}
WhoisOutcomes == WhoisReturns \cup WhoisFaults

VARIABLES
    entry,                \* "main" or "find_available_domains": the function the run calls
    argv,                 \* main: the command line arguments
    configDoc,            \* the configuration file
    inputFile,            \* the base-string file
    status_callback,      \* "None", "print_status" or "mock"
    sinkFaultAt,          \* the call at which the mock callback raises (0: never)
    pc,                   \* position of the run
    calls,                \* functions main has called, in order
    tlds,                 \* main: tlds
    base_strings,         \* main: base_strings
    domain_combinations,  \* the candidates
    idx,                  \* find_available_domains: position of the for loop (1-based)
    available_domains,    \* find_available_domains: available_domains
    sinkCalls,            \* arguments the callback was invoked with, in order
    sinkFaulted,          \* the callback has raised
    whoisQueries,         \* domains whois.whois was called with, in order
    lastOutcome,          \* outcome of the latest whois query
    verdictLog,           \* per finished probe: did whois raise, what check_domain returned
    returned,             \* find_available_domains has returned
    result,               \* its return value
    fault,                \* the exception propagating out of the run ("none": none)
    stdout                \* lines printed

vars == <<entry, argv, configDoc, inputFile, status_callback, sinkFaultAt, pc, calls, tlds,
          base_strings, domain_combinations, idx, available_domains, sinkCalls,
          sinkFaulted, whoisQueries, lastOutcome, verdictLog, returned, result, fault,
          stdout>>

\* ------------------------------------------------------------- str helpers
\* The code points str.strip() removes (those for which str.isspace() holds):
\* U+0009..000D, U+001C..001F, U+0020, U+0085, U+00A0, U+1680, U+2000..200A,
\* U+2028, U+2029, U+202F, U+205F, U+3000.
IsSpace(c) ==
    c \in (9..13) \cup (28..32) \cup {133, 160, 5760} \cup (8192..8202)
              \cup {8232, 8233, 8239, 8287, 12288}

RECURSIVE lstrip(_)
lstrip(s) == IF s # <<>> /\ IsSpace(Head(s)) THEN lstrip(Tail(s)) ELSE s

RECURSIVE rstrip(_)
rstrip(s) == IF s # <<>> /\ IsSpace(s[Len(s)]) THEN rstrip(SubSeq(s, 1, Len(s) - 1)) ELSE s

\* line.strip()
strip(s) == rstrip(lstrip(s))

\* ------------------------------------------------------------- load_config
load_config_swallow(config_file, doc) ==
    IF config_file.is_list THEN [raised |-> "TypeError", value |-> <<>>]
    ELSE IF doc.kind \in {"absent", "invalid"} THEN [raised |-> "none", value |-> <<>>]
    ELSE IF doc.kind # "mapping" THEN [raised |-> "AttributeError", value |-> <<>>]
    ELSE [raised |-> "none", value |-> IF doc.has_key THEN doc.tlds ELSE <<>>]

\* try: open; yaml.safe_load; config.get('top_level_domains', [])
\* except FileNotFoundError: []
\* config_file is args.config: a str, or the list [] that --config=-- leaves,
\* which open() rejects with TypeError; doc is the file that str names.
load_config(config_file, doc) ==
    IF config_file.is_list THEN [raised |-> "TypeError", value |-> <<>>]
    ELSE IF doc.kind = "absent" THEN [raised |-> "none", value |-> <<>>]
    ELSE IF doc.kind = "invalid" THEN [raised |-> "YAMLError", value |-> <<>>]
    ELSE IF doc.kind # "mapping" THEN [raised |-> "AttributeError", value |-> <<>>]
    ELSE [raised |-> "none", value |-> IF doc.has_key THEN doc.tlds ELSE <<>>]

\* ------------------------------------------------------------- load_strings
RECURSIVE StrippedLines(_)
StrippedLines(lines) ==
    IF lines = <<>> THEN <<>>
    ELSE IF strip(Head(lines)) # <<>>
         THEN <<strip(Head(lines))>> \o StrippedLines(Tail(lines))
         ELSE StrippedLines(Tail(lines))

load_strings_unguarded(file) ==
    IF file.exists THEN [raised |-> "none", value |-> StrippedLines(file.lines)]
    ELSE [raised |-> "FileNotFoundError", value |-> <<>>]

\* [line.strip() for line in file if line.strip()], [] when the file is missing
load_strings(file) ==
    IF file.exists THEN [raised |-> "none", value |-> StrippedLines(file.lines)]
    ELSE [raised |-> "none", value |-> <<>>]

\* ------------------------------------------------------------- check_domain
check_domain_narrow(outcome) ==
    IF outcome = "PywhoisError" THEN [raised |-> "none", ret |-> FALSE]
    ELSE IF outcome \in WhoisFaults THEN [raised |-> outcome, ret |-> FALSE]
    ELSE [raised |-> "none", ret |-> TRUE]

check_domain_inverted(outcome) ==
    [raised |-> "none", ret |-> outcome \in WhoisFaults]

\* try: whois.whois(domain); return True   except Exception: return False
check_domain(outcome) ==
    IF outcome \in WhoisFaults THEN [raised |-> "none", ret |-> FALSE]
    ELSE [raised |-> "none", ret |-> TRUE]

\* ------------------------------------------------------------- generate_domain_combinations
RECURSIVE ForTld(_, _)
ForTld(base, ts) ==
    IF ts = <<>> THEN <<>>
    ELSE << <<base \o s_dot \o Head(ts), base>> >> \o ForTld(base, Tail(ts))

RECURSIVE ForBase(_, _)
ForBase(tld, bs) ==
    IF bs = <<>> THEN <<>>
    ELSE << <<Head(bs) \o s_dot \o tld, Head(bs)>> >> \o ForBase(tld, Tail(bs))

RECURSIVE generate_tld_major(_, _)
generate_tld_major(bs, ts) ==
    IF ts = <<>> THEN <<>>
    ELSE ForBase(Head(ts), bs) \o generate_tld_major(bs, Tail(ts))

\* [(f"{base}.{tld}", base) for base in base_strings for tld in tlds]
RECURSIVE generate_domain_combinations(_, _)
generate_domain_combinations(bs, ts) ==
    IF bs = <<>> THEN <<>>
    ELSE ForTld(Head(bs), ts) \o generate_domain_combinations(Tail(bs), ts)

\* ------------------------------------------------------------- printing
\* print(f"Checking: {base}")
print_status(base) == <<s_Checking \o base>>

\* print_results: the lines it prints
print_results(available) ==
    IF available # <<>> THEN <<s_Available>> \o available
    ELSE <<s_NoAvailable>>

\* ------------------------------------------------------------- find_available_domains
CallbackArgBase(cand) == cand[2]

\* status_callback(domain): the argument of the callback for a candidate
CallbackArg(cand) == cand[1]

AfterCallbackSwallow(raises) == "probe"

\* where the loop goes after the callback: an exception of the callback is not caught
AfterCallback(raises) == IF raises THEN "raised" ELSE "probe"

ForNextSkip(i) == i + 2

\* the for loop moves to the next candidate
ForNext(i) == i + 1

\* for domain, base in domain_combinations: if status_callback: status_callback(domain)
Notify ==
    /\ pc = "for"
    /\ idx <= Len(domain_combinations)
    /\ IF status_callback = "None"
       THEN /\ pc' = "probe"
            /\ UNCHANGED <<sinkCalls, sinkFaulted, stdout, fault>>
       ELSE LET arg == CallbackArg(domain_combinations[idx])
                raises == /\ status_callback = "mock"
                          /\ sinkFaultAt = Len(sinkCalls) + 1
                next == AfterCallback(raises)
            IN  /\ sinkCalls' = Append(sinkCalls, arg)
                /\ sinkFaulted' = (sinkFaulted \/ raises)
                /\ stdout' = IF status_callback = "print_status"
                             THEN stdout \o print_status(arg) ELSE stdout
                /\ pc' = next
                /\ fault' = IF next = "raised" THEN "CallbackError" ELSE fault
    /\ UNCHANGED <<entry, argv, configDoc, inputFile, status_callback, sinkFaultAt, calls, tlds,
                   base_strings, domain_combinations, idx, available_domains,
                   whoisQueries, lastOutcome, verdictLog, returned, result>>

\* check_domain(domain) is entered: whois.whois(domain) is called
ProbeStart ==
    /\ pc = "probe"
    /\ whoisQueries' = Append(whoisQueries, domain_combinations[idx][1])
    /\ pc' = "whois"
    /\ UNCHANGED <<entry, argv, configDoc, inputFile, status_callback, sinkFaultAt, calls, tlds,
                   base_strings, domain_combinations, idx, available_domains, sinkCalls,
                   sinkFaulted, lastOutcome, verdictLog, returned, result, fault, stdout>>

\* whois.whois returns or raises; check_domain returns;
\* if not check_domain(domain): available_domains.append(domain)
ProbeEnd ==
    /\ pc = "whois"
    /\ \E outcome \in WhoisOutcomes :
         LET r == check_domain(outcome)
         IN  /\ lastOutcome' = outcome
             /\ IF r.raised # "none"
                THEN /\ pc' = "raised"
                     /\ fault' = r.raised
                     /\ UNCHANGED <<verdictLog, available_domains, idx>>
                ELSE /\ verdictLog' = Append(verdictLog,
                            [faulted |-> outcome \in WhoisFaults, ret |-> r.ret])
                     /\ available_domains' =
                            IF ~r.ret
                            THEN Append(available_domains, domain_combinations[idx][1])
                            ELSE available_domains
                     /\ idx' = ForNext(idx)
                     /\ pc' = "for"
                     /\ UNCHANGED fault
    /\ UNCHANGED <<entry, argv, configDoc, inputFile, status_callback, sinkFaultAt, calls, tlds,
                   base_strings, domain_combinations, sinkCalls, sinkFaulted,
                   whoisQueries, returned, result, stdout>>

\* the loop is exhausted: return available_domains
FindReturn ==
    /\ pc = "for"
    /\ idx > Len(domain_combinations)
    /\ returned' = TRUE
    /\ result' = available_domains
    /\ pc' = IF entry = "main" THEN "print_results" ELSE "done"
    /\ UNCHANGED <<entry, argv, configDoc, inputFile, status_callback, sinkFaultAt, calls, tlds,
                   base_strings, domain_combinations, idx, available_domains, sinkCalls,
                   sinkFaulted, whoisQueries, lastOutcome, verdictLog, fault, stdout>>

find_available_domains == Notify \/ ProbeStart \/ ProbeEnd \/ FindReturn

\* ------------------------------------------------------------- parse_arguments
s_h == <<45, 104>>                                        \* "-h"
s_help == <<45, 45, 104, 101, 108, 112>>                   \* "--help"
s_config == <<45, 45, 99, 111, 110, 102, 105, 103>>      \* "--config"
s_dashdash == <<45, 45>>                                 \* "--"
\* "config.yaml"
s_config_yaml == <<99, 111, 110, 102, 105, 103, 46, 121, 97, 109, 108>>

\* parser._option_string_actions, in the order the options were added
OptionStrings == <<s_h, s_help, s_config>>

\* the action an option string belongs to
ActionOf(o) == IF o = s_config THEN "config" ELSE "help"

\* The help message print_help writes to stdout, line by line (program name
\* check_domains.py, 80 columns).
HelpLines ==
    <<
      \* 'usage: check_domains.py [-h] [--config CONFIG] input_file'
      <<117, 115, 97, 103, 101, 58, 32, 99, 104, 101, 99, 107, 95, 100, 111, 109, 97, 105, 110, 115, 46, 112, 121, 32, 91, 45, 104, 93, 32, 91, 45, 45, 99, 111, 110, 102, 105, 103, 32, 67, 79, 78, 70, 73, 71, 93, 32, 105, 110, 112, 117, 116, 95, 102, 105, 108, 101>>,
      \* ''
      <<>>,
      \* 'Check for available domain names'
      <<67, 104, 101, 99, 107, 32, 102, 111, 114, 32, 97, 118, 97, 105, 108, 97, 98, 108, 101, 32, 100, 111, 109, 97, 105, 110, 32, 110, 97, 109, 101, 115>>,
      \* ''
      <<>>,
      \* 'positional arguments:'
      <<112, 111, 115, 105, 116, 105, 111, 110, 97, 108, 32, 97, 114, 103, 117, 109, 101, 110, 116, 115, 58>>,
      \* '  input_file       File containing list of base strings'
      <<32, 32, 105, 110, 112, 117, 116, 95, 102, 105, 108, 101, 32, 32, 32, 32, 32, 32, 32, 70, 105, 108, 101, 32, 99, 111, 110, 116, 97, 105, 110, 105, 110, 103, 32, 108, 105, 115, 116, 32, 111, 102, 32, 98, 97, 115, 101, 32, 115, 116, 114, 105, 110, 103, 115>>,
      \* ''
      <<>>,
      \* 'options:'
      <<111, 112, 116, 105, 111, 110, 115, 58>>,
      \* '  -h, --help       show this help message and exit'
      <<32, 32, 45, 104, 44, 32, 45, 45, 104, 101, 108, 112, 32, 32, 32, 32, 32, 32, 32, 115, 104, 111, 119, 32, 116, 104, 105, 115, 32, 104, 101, 108, 112, 32, 109, 101, 115, 115, 97, 103, 101, 32, 97, 110, 100, 32, 101, 120, 105, 116>>,
      \* '  --config CONFIG  Configuration file path (default: config.yaml)'
      <<32, 32, 45, 45, 99, 111, 110, 102, 105, 103, 32, 67, 79, 78, 70, 73, 71, 32, 32, 67, 111, 110, 102, 105, 103, 117, 114, 97, 116, 105, 111, 110, 32, 102, 105, 108, 101, 32, 112, 97, 116, 104, 32, 40, 100, 101, 102, 97, 117, 108, 116, 58, 32, 99, 111, 110, 102, 105, 103, 46, 121, 97, 109, 108, 41>>
    >>

StartsWith(s, p) == Len(p) <= Len(s) /\ SubSeq(s, 1, Len(p)) = p

\* position of the first c in s, 0 when s holds none
FirstIndex(s, c) ==
    IF \E k \in 1..Len(s) : s[k] = c
    THEN CHOOSE k \in 1..Len(s) : s[k] = c /\ \A j \in 1..(k - 1) : s[j] # c
    ELSE 0

\* \d of the re module on str: the code points of category Nd
IsDigit(c) ==
    c \in UNION {
        (48..57), (1632..1641), (1776..1785), (1984..1993), (2406..2415),
        (2534..2543), (2662..2671), (2790..2799), (2918..2927), (3046..3055),
        (3174..3183), (3302..3311), (3430..3439), (3558..3567), (3664..3673),
        (3792..3801), (3872..3881), (4160..4169), (4240..4249), (6112..6121),
        (6160..6169), (6470..6479), (6608..6617), (6784..6793), (6800..6809),
        (6992..7001), (7088..7097), (7232..7241), (7248..7257), (42528..42537),
        (43216..43225), (43264..43273), (43472..43481), (43504..43513), (43600..43609),
        (44016..44025), (65296..65305), (66720..66729), (68912..68921), (69734..69743),
        (69872..69881), (69942..69951), (70096..70105), (70384..70393), (70736..70745),
        (70864..70873), (71248..71257), (71360..71369), (71472..71481), (71904..71913),
        (72016..72025), (72784..72793), (73040..73049), (73120..73129), (92768..92777),
        (92864..92873), (93008..93017), (120782..120831), (123200..123209), (123632..123641),
        (125264..125273), (130032..130041) }

AllDigits(s) == \A k \in 1..Len(s) : IsDigit(s[k])

\* parser._negative_number_matcher: re.match('^-\d+$|^-\d*\.\d+$', t), where $
\* also matches before a final newline
NegativeNumber(t) ==
    LET u == IF t # <<>> /\ t[Len(t)] = 10 THEN SubSeq(t, 1, Len(t) - 1) ELSE t
        r == Tail(u)
        k == FirstIndex(r, 46)
    IN  /\ u # <<>>
        /\ u[1] = 45
        /\ \/ r # <<>> /\ AllDigits(r)
           \/ /\ k > 0
              /\ k < Len(r)
              /\ AllDigits(SubSeq(r, 1, k - 1))
              /\ AllDigits(SubSeq(r, k + 1, Len(r)))

\* What an argument string is taken for: kind "A" (an argument), "O" (an
\* option: its action, "none" when the parser has no such option, and the
\* explicit argument it carries), "-" (the first "--") or "ambiguous".
ArgA == [kind |-> "A", action |-> "none", has_explicit |-> FALSE, explicit |-> <<>>,
         option_string |-> <<>>]
ArgDash == [kind |-> "-", action |-> "none", has_explicit |-> FALSE, explicit |-> <<>>,
            option_string |-> <<>>]
ArgAmbiguous == [kind |-> "ambiguous", action |-> "none", has_explicit |-> FALSE,
                 explicit |-> <<>>, option_string |-> <<>>]
ArgO(action, has, expl, ostr) ==
    [kind |-> "O", action |-> action, has_explicit |-> has, explicit |-> expl,
     option_string |-> ostr]

\* ArgumentParser._get_option_tuples for one option string o: abbreviations of
\* long options (split at "="), and -hXYZ as -h with the explicit argument XYZ
OptionTuple(o, t) ==
    IF t[2] = 45
    THEN LET eq == FirstIndex(t, 61)
             prefix == IF eq > 0 THEN SubSeq(t, 1, eq - 1) ELSE t
             expl == IF eq > 0 THEN SubSeq(t, eq + 1, Len(t)) ELSE <<>>
         IN  IF StartsWith(o, prefix) THEN <<ArgO(ActionOf(o), eq > 0, expl, o)>> ELSE <<>>
    ELSE IF o = SubSeq(t, 1, 2) THEN <<ArgO(ActionOf(o), TRUE, SubSeq(t, 3, Len(t)), o)>>
         ELSE IF StartsWith(o, t) THEN <<ArgO(ActionOf(o), FALSE, <<>>, o)>>
         ELSE <<>>

get_option_tuples(t) ==
    OptionTuple(OptionStrings[1], t) \o OptionTuple(OptionStrings[2], t)
        \o OptionTuple(OptionStrings[3], t)

\* ArgumentParser._parse_optional
parse_optional(t) ==
    IF t = <<>> THEN ArgA
    ELSE IF t[1] # 45 THEN ArgA
    ELSE IF \E k \in 1..Len(OptionStrings) : OptionStrings[k] = t
         THEN ArgO(ActionOf(t), FALSE, <<>>, t)
    ELSE IF Len(t) = 1 THEN ArgA
    ELSE LET eq == FirstIndex(t, 61)
             prefix == SubSeq(t, 1, eq - 1)
             tuples == get_option_tuples(t)
         IN  IF eq > 0 /\ (\E k \in 1..Len(OptionStrings) : OptionStrings[k] = prefix)
             THEN ArgO(ActionOf(prefix), TRUE, SubSeq(t, eq + 1, Len(t)), prefix)
             ELSE IF Len(tuples) > 1 THEN ArgAmbiguous
             ELSE IF Len(tuples) = 1 THEN tuples[1]
             ELSE IF NegativeNumber(t) THEN ArgA
             ELSE IF \E k \in 1..Len(t) : t[k] = 32 THEN ArgA
             ELSE ArgO("none", FALSE, <<>>, t)

\* arg_strings_pattern: every string after the first "--" is an argument
RECURSIVE ArgPattern(_, _)
ArgPattern(args, after_dashdash) ==
    IF args = <<>> THEN <<>>
    ELSE IF after_dashdash THEN <<ArgA>> \o ArgPattern(Tail(args), TRUE)
    ELSE IF Head(args) = s_dashdash THEN <<ArgDash>> \o ArgPattern(Tail(args), TRUE)
    ELSE LET o == parse_optional(Head(args))
         IN  IF o.kind = "ambiguous" THEN <<o>>
             ELSE <<o>> \o ArgPattern(Tail(args), FALSE)

RECURSIVE SkipDashes(_, _)
SkipDashes(pat, j) ==
    IF j <= Len(pat) /\ pat[j].kind = "-" THEN SkipDashes(pat, j + 1) ELSE j

\* consume_positionals: input_file takes one argument, with the "--" around it
consume_positionals(args, pat, i, ns) ==
    LET j == SkipDashes(pat, i)
    IN  IF ns.pending /\ j <= Len(pat) /\ pat[j].kind = "A"
        THEN [idx |-> SkipDashes(pat, j + 1),
              ns |-> [ns EXCEPT !.pending = FALSE, !.input_file = args[j]]]
        ELSE [idx |-> i, ns |-> ns]

ParseError ==
    [raised |-> "SystemExit", code |-> 2, input_file |-> <<>>,
     config |-> [is_list |-> FALSE, str |-> <<>>], stdout |-> <<>>]
ParseHelp ==
    [raised |-> "SystemExit", code |-> 0, input_file |-> <<>>,
     config |-> [is_list |-> FALSE, str |-> <<>>], stdout |-> HelpLines]

\* the loop of _parse_known_args from string i on, then the checks of
\* parse_args: required arguments, unrecognized arguments
RECURSIVE ConsumeFrom(_, _, _, _)
ConsumeFrom(args, pat, i, ns) ==
    LET options == {k \in i..Len(pat) : pat[k].kind = "O"}
        e == consume_positionals(args, pat, i, ns)
    IN  IF options = {}
        THEN IF e.ns.pending \/ e.ns.extras \/ e.idx <= Len(args) THEN ParseError
             ELSE [raised |-> "none", code |-> 0, input_file |-> e.ns.input_file,
                   config |-> e.ns.config, stdout |-> <<>>]
        ELSE LET nxt == CHOOSE k \in options : \A m \in options : k <= m
                 o == pat[nxt]
                 ns1 == IF i # nxt THEN [ns EXCEPT !.extras = TRUE] ELSE ns
             IN  IF i # nxt /\ e.idx > i THEN ConsumeFrom(args, pat, e.idx, e.ns)
                 ELSE IF o.action = "none"
                      THEN ConsumeFrom(args, pat, nxt + 1, [ns1 EXCEPT !.extras = TRUE])
                 ELSE IF o.action = "help"
                      THEN IF ~o.has_explicit THEN ParseHelp
                           ELSE IF /\ o.option_string[2] # 45
                                   /\ o.explicit # <<>>
                                   /\ \A k \in 1..Len(o.explicit) : o.explicit[k] = 104
                                THEN ParseHelp
                                ELSE ParseError
                 ELSE IF o.has_explicit
                      THEN ConsumeFrom(args, pat, nxt + 1,
                               [ns1 EXCEPT !.config =
                                   IF o.explicit = s_dashdash
                                   THEN [is_list |-> TRUE, str |-> <<>>]
                                   ELSE [is_list |-> FALSE, str |-> o.explicit]])
                 ELSE IF nxt + 1 <= Len(pat) /\ pat[nxt + 1].kind = "A"
                      THEN ConsumeFrom(args, pat, nxt + 2,
                               [ns1 EXCEPT !.config =
                                   [is_list |-> FALSE, str |-> args[nxt + 1]]])
                 ELSE ParseError

\* parser.parse_args() on sys.argv[1:]: the namespace (input_file, config), or
\* SystemExit: 0 after printing the help, 2 after an error
parse_arguments(args) ==
    LET pat == ArgPattern(args, FALSE)
    IN  IF \E k \in 1..Len(pat) : pat[k].kind = "ambiguous" THEN ParseError
        ELSE ConsumeFrom(args, pat, 1,
                 [pending |-> TRUE, input_file |-> <<>>, extras |-> FALSE,
                  config |-> [is_list |-> FALSE, str |-> s_config_yaml]])

\* ------------------------------------------------------------- main
\* args = parse_arguments()
MainParseArguments ==
    /\ pc = "parse_arguments"
    /\ calls' = Append(calls, "parse_arguments")
    /\ LET r == parse_arguments(argv)
       IN  IF r.raised # "none"
           THEN pc' = "raised" /\ fault' = r.raised /\ stdout' = stdout \o r.stdout
           ELSE pc' = "load_config" /\ UNCHANGED <<fault, stdout>>
    /\ UNCHANGED <<entry, argv, configDoc, inputFile, status_callback, sinkFaultAt, tlds,
                   base_strings, domain_combinations, idx, available_domains, sinkCalls,
                   sinkFaulted, whoisQueries, lastOutcome, verdictLog, returned, result>>

\* tlds = load_config(args.config)
MainLoadConfig ==
    /\ pc = "load_config"
    /\ calls' = Append(calls, "load_config")
    /\ LET r == load_config(parse_arguments(argv).config, configDoc)
       IN  IF r.raised # "none"
           THEN /\ pc' = "raised"
                /\ fault' = r.raised
                /\ UNCHANGED tlds
           ELSE /\ tlds' = r.value
                /\ pc' = "load_strings"
                /\ UNCHANGED fault
    /\ UNCHANGED <<entry, argv, configDoc, inputFile, status_callback, sinkFaultAt,
                   base_strings, domain_combinations, idx, available_domains, sinkCalls,
                   sinkFaulted, whoisQueries, lastOutcome, verdictLog, returned, result,
                   stdout>>

\* base_strings = load_strings(args.input_file)
MainLoadStrings ==
    /\ pc = "load_strings"
    /\ calls' = Append(calls, "load_strings")
    /\ LET r == load_strings(inputFile)
       IN  IF r.raised # "none"
           THEN /\ pc' = "raised"
                /\ fault' = r.raised
                /\ UNCHANGED base_strings
           ELSE /\ base_strings' = r.value
                /\ pc' = "generate"
                /\ UNCHANGED fault
    /\ UNCHANGED <<entry, argv, configDoc, inputFile, status_callback, sinkFaultAt, tlds,
                   domain_combinations, idx, available_domains, sinkCalls, sinkFaulted,
                   whoisQueries, lastOutcome, verdictLog, returned, result, stdout>>

\* domain_combinations = generate_domain_combinations(base_strings, tlds);
\* find_available_domains(domain_combinations, print_status) is entered
MainGenerate ==
    /\ pc = "generate"
    /\ calls' = calls \o <<"generate_domain_combinations", "find_available_domains">>
    /\ domain_combinations' = generate_domain_combinations(base_strings, tlds)
    /\ pc' = "for"
    /\ UNCHANGED <<entry, argv, configDoc, inputFile, status_callback, sinkFaultAt, tlds,
                   base_strings, idx, available_domains, sinkCalls, sinkFaulted,
                   whoisQueries, lastOutcome, verdictLog, returned, result, fault, stdout>>

\* print_results(available_domains)
MainPrintResults ==
    /\ pc = "print_results"
    /\ calls' = Append(calls, "print_results")
    /\ stdout' = stdout \o print_results(result)
    /\ pc' = "done"
    /\ UNCHANGED <<entry, argv, configDoc, inputFile, status_callback, sinkFaultAt, tlds,
                   base_strings, domain_combinations, idx, available_domains, sinkCalls,
                   sinkFaulted, whoisQueries, lastOutcome, verdictLog, returned, result,
                   fault>>

main == MainParseArguments \/ MainLoadConfig \/ MainLoadStrings \/ MainGenerate \/ MainPrintResults

\* ------------------------------------------------------------- specification
InitCommon ==
    /\ calls = <<>>
    /\ tlds = <<>>
    /\ base_strings = <<>>
    /\ idx = 1
    /\ available_domains = <<>>
    /\ sinkCalls = <<>>
    /\ sinkFaulted = FALSE
    /\ whoisQueries = <<>>
    /\ lastOutcome = "none"
    /\ verdictLog = <<>>
    /\ returned = FALSE
    /\ result = <<>>
    /\ fault = "none"
    /\ stdout = <<>>

\* python check_domains.py input_file --config config
InitMain ==
    /\ entry = "main"
    /\ argv \in ArgvChoices
    /\ configDoc \in ConfigDocs
    /\ inputFile \in InputFiles
    \* no file has the empty path, and [] is no path
    /\ LET a == parse_arguments(argv)
       IN  a.raised = "none" =>
              /\ (a.config.is_list \/ a.config.str = <<>>) => configDoc = NoConfig
              /\ a.input_file = <<>> => inputFile = NoInput
    /\ status_callback = "print_status"
    /\ sinkFaultAt = 0
    /\ domain_combinations = <<>>
    /\ pc = "parse_arguments"

\* find_available_domains(domains) and find_available_domains(domains, callback_mock)
InitFind ==
    /\ entry = "find_available_domains"
    /\ argv = <<>>
    /\ configDoc = NoConfig
    /\ inputFile = NoInput
    /\ domain_combinations \in SeqsUpTo(TestCandidates, MaxCands)
    /\ \/ status_callback = "None" /\ sinkFaultAt = 0
       \/ status_callback = "mock" /\ sinkFaultAt \in 0..MaxCands
    /\ pc = "for"

Init == InitCommon /\ (InitMain \/ InitFind)

Next == main \/ find_available_domains

Spec == Init /\ [][Next]_vars

\* The interpreter runs the single thread on, and every whois query ends.
FairSpec == Spec /\ WF_vars(Next)

\* ------------------------------------------------------------- properties
Domains(cands) == [k \in 1..Len(cands) |-> cands[k][1]]

IsPrefix(s, t) == Len(s) <= Len(t) /\ \A k \in 1..Len(s) : s[k] = t[k]

\* The domains whose probe raised, in the order of the candidates.
RECURSIVE FaultedOf(_, _)
FaultedOf(doms, log) ==
    IF log = <<>> THEN <<>>
    ELSE (IF Head(log).faulted THEN <<Head(doms)>> ELSE <<>>)
             \o FaultedOf(Tail(doms), Tail(log))

InMain == entry = "main"
\* the command line is one parse_arguments accepts
ArgsParsed == parse_arguments(argv).raised = "none"
Called(f) == \E k \in 1..Len(calls) : calls[k] = f

\* C1: when find_available_domains returns (the callback absent or never
\* raising), every candidate has been probed and the value returned is exactly
\* the subsequence of the candidates' domains whose probe raised, in candidate
\* order, duplicates kept.
C1_ResultIsFaultedSubsequence ==
    returned =>
        /\ Len(verdictLog) = Len(domain_combinations)
        /\ result = FaultedOf(Domains(domain_combinations), verdictLog)

C1_Witness ==
    /\ returned
    /\ domain_combinations =
          << <<s_test_com, s_test>>, <<s_test_net, s_test>>, <<s_example_com, s_example>> >>
    /\ ~verdictLog[1].faulted /\ verdictLog[2].faulted /\ ~verdictLog[3].faulted
    /\ result = <<s_test_net>>

\* C2: each call of check_domain issues exactly one whois query, returns True
\* when the query returns (whatever the record) and False when it raises, and
\* no fault of the query leaves check_domain.
C2_CheckDomainVerdict ==
    /\ Len(whoisQueries) = Len(verdictLog) + (IF pc = "whois" THEN 1 ELSE 0)
    /\ \A k \in 1..Len(verdictLog) : verdictLog[k].ret = ~verdictLog[k].faulted
    /\ (lastOutcome # "none" /\ verdictLog # <<>>) =>
           verdictLog[Len(verdictLog)].ret = (lastOutcome \in WhoisReturns)
    /\ fault \notin WhoisFaults

C2_Witness ==
    /\ Len(verdictLog) = 2
    /\ verdictLog[1].faulted /\ ~verdictLog[1].ret
    /\ lastOutcome = "empty_record" /\ verdictLog[2].ret
    /\ Len(whoisQueries) = 2

\* C3: generate_domain_combinations(B, T) has |B|*|T| candidates and the i-th
\* (from 0) is (B[i div |T|] + "." + T[i mod |T|], B[i div |T|]).
C3_BaseMajorProduct ==
    (InMain /\ Called("generate_domain_combinations")) =>
        LET B == base_strings
            T == tlds
            n == Len(B) * Len(T)
        IN  /\ Len(domain_combinations) = n
            /\ \A i \in 0..(n - 1) :
                  domain_combinations[i + 1] =
                      << B[(i \div Len(T)) + 1] \o <<46>> \o T[(i % Len(T)) + 1],
                         B[(i \div Len(T)) + 1] >>

C3_Witness ==
    /\ InMain /\ Called("generate_domain_combinations")
    /\ base_strings = <<s_a, s_b>>
    /\ tlds = <<s_com, s_net>>
    /\ domain_combinations =
          << <<<<97, 46, 99, 111, 109>>, s_a>>, <<<<97, 46, 110, 101, 116>>, s_a>>,
             <<<<98, 46, 99, 111, 109>>, s_b>>, <<<<98, 46, 110, 101, 116>>, s_b>> >>

\* C4: with a callback supplied, the callback's arguments are, in order, the
\* candidates' domain names; a candidate's probe starts only after the callback
\* was invoked for it; on return the callback was invoked once per candidate.
C4_CallbackBeforeProbe ==
    status_callback # "None" =>
        /\ IsPrefix(sinkCalls, Domains(domain_combinations))
        /\ Len(whoisQueries) <= Len(sinkCalls)
        /\ Len(sinkCalls) <= Len(whoisQueries) + 1
        /\ (pc \in {"probe", "whois"}) => Len(sinkCalls) = idx
        /\ returned => sinkCalls = Domains(domain_combinations)

C4_Witness ==
    /\ status_callback = "mock"
    /\ returned
    /\ sinkCalls = <<s_test_com, s_example_com>>
    /\ whoisQueries = <<s_test_com, s_example_com>>

\* C5: once the callback has raised for candidate k the run has ended with that
\* fault: candidate k and the later ones are not probed, the callback is not
\* invoked again, and nothing is returned, not even the domains collected so far.
C5_CallbackFaultAborts ==
    /\ [](sinkFaulted =>
            /\ pc = "raised" /\ fault = "CallbackError"
            /\ ~returned /\ result = <<>>
            /\ Len(sinkCalls) = sinkFaultAt
            /\ Len(whoisQueries) = sinkFaultAt - 1
            /\ Len(verdictLog) = sinkFaultAt - 1)
    /\ [][sinkFaulted => UNCHANGED vars]_vars

C5_Witness ==
    /\ sinkFaulted
    /\ sinkFaultAt = 2
    /\ Len(domain_combinations) = 3
    /\ available_domains # <<>>
    /\ ~returned

\* C6 (as claimed): in a run of main the k-th progress line is "Checking: "
\* followed by the base string of the k-th candidate, it is printed before that
\* candidate's probe, and the output ends with the header and the available
\* domains, or with the line "No available domains found.".
C6_ProgressLineNamesBase ==
    InMain =>
        /\ Len(whoisQueries) <= Len(sinkCalls)
        /\ Len(stdout) >= Len(sinkCalls)
        /\ \A k \in 1..Len(sinkCalls) :
              stdout[k] = s_Checking \o domain_combinations[k][2]
        /\ pc = "done" =>
              SubSeq(stdout, Len(sinkCalls) + 1, Len(stdout)) =
                  (IF result = <<>> THEN <<s_NoAvailable>>
                   ELSE <<s_Available>> \o result)

\* C7 (as claimed): load_config raises nothing and returns [] when the document
\* is absent or lacks the key (an empty or non-mapping document included), and
\* returns the key's sequence when the key is present.
C7_LoadConfigTotal ==
    (InMain /\ Called("load_config") /\ configDoc.kind # "invalid") =>
        /\ fault = "none"
        /\ tlds = (IF configDoc.has_key THEN configDoc.tlds ELSE <<>>)

\* main was given an input_file argument and the file it names is missing
MissingInput == InMain /\ ArgsParsed /\ ~inputFile.exists

\* C8 (as claimed): with the base-string file missing, whatever the
\* configuration, the run raises no fault, generates no candidate, issues no
\* probe and has an empty result.
C8_MissingInputNeverFails ==
    MissingInput =>
        /\ pc # "raised"
        /\ domain_combinations = <<>>
        /\ whoisQueries = <<>>
        /\ result = <<>>

\* C8 (amended): with the base-string file missing, a run in which load_config
\* returns goes on to completion with no candidate, no probe, an empty result
\* and the line "No available domains found."; a run in which load_config
\* raises ends with that fault before the base-string file is read.
C8_MissingInputAmended ==
    /\ [](MissingInput =>
            /\ domain_combinations = <<>>
            /\ whoisQueries = <<>>
            /\ result = <<>>
            /\ pc = "raised" =>
                  /\ calls = <<"parse_arguments", "load_config">>
                  /\ fault = load_config(parse_arguments(argv).config, configDoc).raised
                  /\ fault # "none"
            /\ pc = "done" => /\ fault = "none"
                              /\ returned
                              /\ stdout = <<s_NoAvailable>>)
    /\ ((MissingInput /\ pc = "load_strings") ~> (pc = "done"))

C8_Witness ==
    /\ MissingInput
    /\ pc = "done"
    /\ tlds = <<s_com, s_net>>
    /\ stdout = <<s_NoAvailable>>

\* C9: a configuration document that does not parse makes load_config raise the
\* parse fault, and main ends there: no base string is loaded, no candidate
\* generated, no probe issued, nothing printed.
C9_InvalidConfigTerminates ==
    (InMain /\ ArgsParsed /\ configDoc.kind = "invalid") =>
        /\ pc \in {"parse_arguments", "load_config", "raised"}
        /\ Called("load_config") =>
              /\ pc = "raised"
              /\ fault = "YAMLError"
              /\ calls = <<"parse_arguments", "load_config">>
        /\ tlds = <<>>
        /\ base_strings = <<>>
        /\ domain_combinations = <<>>
        /\ whoisQueries = <<>>
        /\ stdout = <<>>

C9_Witness ==
    /\ InMain /\ ArgsParsed /\ configDoc.kind = "invalid"
    /\ pc = "raised" /\ fault = "YAMLError"
    /\ Called("load_config")
    /\ inputFile.exists /\ Len(inputFile.lines) = 2

SinkNeverFaults == sinkFaultAt \notin 1..Len(domain_combinations)

C10_Sequential ==
    /\ IsPrefix(whoisQueries, Domains(domain_combinations))
    /\ Len(verdictLog) <= Len(whoisQueries)
    /\ Len(whoisQueries) <= Len(verdictLog) + 1
    /\ Len(sinkCalls) <= Len(verdictLog) + 1
    /\ fault \notin WhoisFaults
    /\ returned => /\ Len(whoisQueries) = Len(domain_combinations)
                   /\ Len(verdictLog) = Len(domain_combinations)

\* C10: if the callback never raises and every query ends, the scan terminates;
\* the candidates are probed once each in order, a probe and the next
\* notification start only after the previous probe has ended, the result is
\* returned only after the last probe, and no probe fault ends the scan.
C10_ScanTerminates ==
    /\ []C10_Sequential
    /\ ((pc = "for" /\ SinkNeverFaults) ~> returned)

C10_Witness ==
    /\ returned
    /\ Len(domain_combinations) = 3
    /\ verdictLog[1].faulted
    /\ Len(whoisQueries) = 3
    /\ domain_combinations[2] # domain_combinations[3]

====
